---- MODULE Spec2Model ----
(***************************************************************************)
(* A model of app.py, the Streamlit "Chat with PostgreSQL" application.    *)
(*                                                                         *)
(* Texts are sequences of symbols.  A SQL text is a sequence over Tokens,  *)
(* each token standing for the literal substring it is named after; the    *)
(* two patterns of safe_query_execution are then                           *)
(*     "DATE_SUB(CURRENT_DATE"   = <<DATE, SUB, CURRENT, DATE>>            *)
(*     "CURRENT_DATE - INTERVAL" = <<CURRENT, DATE, INTERVAL>>             *)
(*     "joiningdate"             = <<JOININGDATE>>                         *)
(*     "joiningdate::timestamp"  = <<JOININGDATE, TIMESTAMP>>              *)
(* The pattern "DATE_SUB(CURRENT_DATE" begins and ends with "DATE", so two *)
(* occurrences of it can overlap; the tokens keep that.  Each token's      *)
(* first character occurs in no other token ("D", "_", "C", " ", "j", ":", *)
(* ";"), so on such texts every character-level match of str.replace is a  *)
(* token-level match and Replace below computes what str.replace computes. *)
(* A chat input is a sequence over the characters " " and "a".             *)
(***************************************************************************)
EXTENDS Integers, Sequences, FiniteSets, TLC

VARIABLES
    chat_history,  \* st.session_state.chat_history: sequence of messages
    db,            \* st.session_state.db: [set, uri]; set = ("db" in st.session_state)
    user_query,    \* value of st.chat_input in the current script run
    pc,            \* position of the script: awaiting / generate / execute / compose
    query,         \* vars["query"]: the SQL text the first LLM call returned
    response,      \* vars["response"]: what safe_query_execution returned
    dbArg,         \* the texts handed to db.run in the current script run
    dbOutcome,     \* what the last db.run did: [ok, val]
    composeIn,     \* the inputs handed to the second (answer) LLM call
    stages,        \* calls made in the current script run, in order
    llmCalls,      \* how each LLM call of the current script run ended
    outcome,       \* how the current script run ended
    connectMsg     \* what the Connect handler showed in the current script run

vars == <<chat_history, db, user_query, pc, query, response, dbArg, dbOutcome,
          composeIn, stages, llmCalls, outcome, connectMsg>>

----------------------------------------------------------------------------
(* Bounds *)

MaxLen == 6

MaxTurns == 5

----------------------------------------------------------------------------
(* Texts *)

DATE == "DATE"

SUB == "_SUB("

CURRENT == "CURRENT_"

INTERVAL == " - INTERVAL"

JOININGDATE == "joiningdate"

TIMESTAMP == "::timestamp"

FILLER == ";"

\* The symbols of a generated text.  INTERVAL only enters a text through the
\* first substitution.
Tokens == {DATE, SUB, CURRENT, JOININGDATE, TIMESTAMP, FILLER}

SeqsUpTo(S, n) == UNION {[1..k -> S] : k \in 0..n}

AllQueries == SeqsUpTo(Tokens, MaxLen)

DateSubPattern == <<DATE, SUB, CURRENT, DATE>>

DateSubReplacement == <<CURRENT, DATE, INTERVAL>>

JoinPattern == <<JOININGDATE>>

JoinReplacement == <<JOININGDATE, TIMESTAMP>>

ErrPrefix == "An error occurred while running the query: "

Contains(s, p) ==
    \E i \in 1..(Len(s) - Len(p) + 1) : SubSeq(s, i, i + Len(p) - 1) = p

IsPrefix(s, t) == Len(s) <= Len(t) /\ SubSeq(t, 1, Len(s)) = s

Last(s) == s[Len(s)]

\* str.replace(old, new): left to right, non-overlapping, every occurrence.
RECURSIVE Replace(_, _, _)
Replace(s, old, new) ==
    IF Len(s) < Len(old) THEN s
    ELSE IF SubSeq(s, 1, Len(old)) = old
         THEN new \o Replace(SubSeq(s, Len(old) + 1, Len(s)), old, new)
         ELSE <<Head(s)>> \o Replace(Tail(s), old, new)

\* The argument expression of db.run.
Patch(q) ==
    Replace(Replace(q, DateSubPattern, DateSubReplacement),
            JoinPattern, JoinReplacement)

\* str.strip(): leading and trailing whitespace removed.
RECURSIVE LStrip(_)
LStrip(s) == IF s # <<>> /\ Head(s) = " " THEN LStrip(Tail(s)) ELSE s

RECURSIVE RStrip(_)
RStrip(s) ==
    IF s # <<>> /\ Last(s) = " " THEN RStrip(SubSeq(s, 1, Len(s) - 1)) ELSE s

Strip(s) == RStrip(LStrip(s))

----------------------------------------------------------------------------
(* Values *)

None == [given |-> FALSE, text |-> <<>>]

Some(t) == [given |-> TRUE, text |-> t]

UserTexts == SeqsUpTo({" ", "a"}, 2)

UserInputs == {None} \cup {Some(t) : t \in UserTexts}

\* user_query is not None and user_query.strip() != ""
Accepted(uq) == uq.given /\ Strip(uq.text) # <<>>

AIMessage(c) == [type |-> "AI", content |-> c]

HumanMessage(c) == [type |-> "Human", content |-> c]

Greeting ==
    AIMessage(<<"Hello! I'm a SQL assistant. Ask me anything about your database.">>)

NoDb == [set |-> FALSE, uri |-> "none"]

Uris == {"emp", "other"}

Handle(u) == [set |-> TRUE, uri |-> u]

SessionQueries ==
    { <<FILLER>>, <<JOININGDATE>>, <<DATE, SUB, CURRENT, DATE, FILLER>> }

Results == { <<"rows">>, <<>> }

Errors == { <<"syntax error">>, <<"relation does not exist">> }

Answers == { <<"answer">>, <<"I don't have the necessary data to answer this query.">> }

DbOutcomes ==
    {[ok |-> TRUE, val |-> r] : r \in Results}
        \cup {[ok |-> FALSE, val |-> e] : e \in Errors}

NoOutcome == [ok |-> TRUE, val |-> <<>>]

NoCompose == [called |-> FALSE, schema |-> <<>>, question |-> <<>>,
              chat_history |-> <<>>, query |-> <<>>, response |-> <<>>]

\* db.get_table_info(): the schema text of the connected database.  It is
\* read from the handle's reflected metadata and is taken not to fail.
get_table_info(d) == <<"schema of", d.uri>>

----------------------------------------------------------------------------
(* safe_query_execution *)

safe_query_execution_NoPrefix(q, o) ==
    [arg |-> Patch(q), result |-> o.val]

safe_query_execution_Unpatched(q, o) ==
    [arg |-> Replace(q, JoinPattern, JoinReplacement),
     result |-> IF o.ok THEN o.val ELSE <<ErrPrefix>> \o o.val]

\* q: the generated query; o: what db.run does with the patched text.
\* arg is the text handed to db.run, result is the value returned.
safe_query_execution(q, o) ==
    [arg |-> Patch(q),
     result |-> IF o.ok THEN o.val ELSE <<ErrPrefix>> \o o.val]

----------------------------------------------------------------------------
(* The script: one run per user interaction *)

Init ==
    /\ chat_history = <<Greeting>>
    /\ db = NoDb
    /\ user_query = None
    /\ pc = "awaiting"
    /\ query = <<>>
    /\ response = <<>>
    /\ dbArg = <<>>
    /\ dbOutcome = NoOutcome
    /\ composeIn = NoCompose
    /\ stages = <<>>
    /\ llmCalls = <<>>
    /\ outcome = "idle"
    /\ connectMsg = "none"

\* What every script run starts from: the locals of the previous run are gone.
FreshRun ==
    /\ query' = <<>>
    /\ response' = <<>>
    /\ dbArg' = <<>>
    /\ dbOutcome' = NoOutcome
    /\ composeIn' = NoCompose
    /\ llmCalls' = <<>>

Connect_DropOnFailure(u, ok) ==
    /\ pc = "awaiting"
    /\ FreshRun
    /\ db' = IF ok THEN Handle(u) ELSE NoDb
    /\ connectMsg' = IF ok THEN "success" ELSE "error"
    /\ user_query' = None
    /\ stages' = <<>>
    /\ outcome' = "idle"
    /\ UNCHANGED <<chat_history, pc>>

\* The run the Connect button triggers: init_database returns a handle
\* (ok) or raises; st.chat_input returns None in that run.
Connect(u, ok) ==
    /\ pc = "awaiting"
    /\ FreshRun
    /\ db' = IF ok THEN Handle(u) ELSE db
    /\ connectMsg' = IF ok THEN "success" ELSE "error"
    /\ user_query' = None
    /\ stages' = <<>>
    /\ outcome' = "idle"
    /\ UNCHANGED <<chat_history, pc>>

ChatInput_NoStrip(uq) ==
    /\ pc = "awaiting"
    /\ uq.given /\ uq.text # <<>> => Len(chat_history) + 2 <= MaxTurns
    /\ FreshRun
    /\ user_query' = uq
    /\ connectMsg' = "none"
    /\ IF uq.given /\ uq.text # <<>>
       THEN /\ chat_history' = Append(chat_history, HumanMessage(uq.text))
            /\ IF db.set
               THEN /\ stages' = <<"get_response">>
                    /\ outcome' = "running"
                    /\ pc' = "generate"
               ELSE /\ stages' = <<>>
                    /\ outcome' = "no_db"
                    /\ pc' = "awaiting"
       ELSE /\ stages' = <<>>
            /\ outcome' = "ignored"
            /\ UNCHANGED <<chat_history, pc>>
    /\ UNCHANGED db

ChatInput_Overwrite(uq) ==
    /\ pc = "awaiting"
    /\ Accepted(uq) => Len(chat_history) + 2 <= MaxTurns
    /\ FreshRun
    /\ user_query' = uq
    /\ connectMsg' = "none"
    /\ IF Accepted(uq)
       THEN /\ chat_history' = <<Greeting, HumanMessage(uq.text)>>
            /\ IF db.set
               THEN /\ stages' = <<"get_response">>
                    /\ outcome' = "running"
                    /\ pc' = "generate"
               ELSE /\ stages' = <<>>
                    /\ outcome' = "no_db"
                    /\ pc' = "awaiting"
       ELSE /\ stages' = <<>>
            /\ outcome' = "ignored"
            /\ UNCHANGED <<chat_history, pc>>
    /\ UNCHANGED db

ChatInput_AppendLate(uq) ==
    /\ pc = "awaiting"
    /\ Accepted(uq) => Len(chat_history) + 2 <= MaxTurns
    /\ FreshRun
    /\ user_query' = uq
    /\ connectMsg' = "none"
    /\ IF Accepted(uq)
       THEN IF db.set
            THEN /\ stages' = <<"get_response">>
                 /\ outcome' = "running"
                 /\ pc' = "generate"
                 /\ UNCHANGED chat_history
            ELSE /\ chat_history' = Append(chat_history, HumanMessage(uq.text))
                 /\ stages' = <<>>
                 /\ outcome' = "no_db"
                 /\ pc' = "awaiting"
       ELSE /\ stages' = <<>>
            /\ outcome' = "ignored"
            /\ UNCHANGED <<chat_history, pc>>
    /\ UNCHANGED db

ChatInput_NoDbCheck(uq) ==
    /\ pc = "awaiting"
    /\ Accepted(uq) => Len(chat_history) + 2 <= MaxTurns
    /\ FreshRun
    /\ user_query' = uq
    /\ connectMsg' = "none"
    /\ IF Accepted(uq)
       THEN /\ chat_history' = Append(chat_history, HumanMessage(uq.text))
            /\ stages' = <<"get_response">>
            /\ outcome' = "running"
            /\ pc' = "generate"
       ELSE /\ stages' = <<>>
            /\ outcome' = "ignored"
            /\ UNCHANGED <<chat_history, pc>>
    /\ UNCHANGED db

\* The run a chat submission (or any other rerun, uq = None) triggers, up to
\* the call of get_response.
ChatInput(uq) ==
    /\ pc = "awaiting"
    /\ Accepted(uq) => Len(chat_history) + 2 <= MaxTurns
    /\ FreshRun
    /\ user_query' = uq
    /\ connectMsg' = "none"
    /\ IF Accepted(uq)
       THEN /\ chat_history' = Append(chat_history, HumanMessage(uq.text))
            /\ IF db.set
               THEN /\ stages' = <<"get_response">>
                    /\ outcome' = "running"
                    /\ pc' = "generate"
               ELSE /\ stages' = <<>>
                    /\ outcome' = "no_db"
                    /\ pc' = "awaiting"
       ELSE /\ stages' = <<>>
            /\ outcome' = "ignored"
            /\ UNCHANGED <<chat_history, pc>>
    /\ UNCHANGED db

\* get_response, first step: the SQL chain's LLM call returns a text.
GenerateOk(q) ==
    /\ pc = "generate"
    /\ query' = q
    /\ llmCalls' = Append(llmCalls, "ok")
    /\ stages' = Append(stages, "gen")
    /\ pc' = "execute"
    /\ UNCHANGED <<chat_history, db, user_query, response, dbArg, dbOutcome,
                   composeIn, outcome, connectMsg>>

GenerateFail_Caught ==
    /\ pc = "generate"
    /\ query' = <<>>
    /\ llmCalls' = Append(llmCalls, "failed")
    /\ stages' = Append(stages, "gen")
    /\ pc' = "execute"
    /\ UNCHANGED <<chat_history, db, user_query, response, dbArg, dbOutcome,
                   composeIn, outcome, connectMsg>>

\* The SQL chain's LLM call raises: nothing catches it, the script run ends.
GenerateFail ==
    /\ pc = "generate"
    /\ llmCalls' = Append(llmCalls, "failed")
    /\ stages' = Append(stages, "gen")
    /\ outcome' = "raised"
    /\ pc' = "awaiting"
    /\ UNCHANGED <<chat_history, db, user_query, query, response, dbArg,
                   dbOutcome, composeIn, connectMsg>>

Execute_Halting(o) ==
    /\ pc = "execute"
    /\ dbArg' = Append(dbArg, safe_query_execution(query, o).arg)
    /\ dbOutcome' = o
    /\ response' = safe_query_execution(query, o).result
    /\ stages' = Append(stages, "exec")
    /\ pc' = IF o.ok THEN "compose" ELSE "awaiting"
    /\ outcome' = IF o.ok THEN outcome ELSE "raised"
    /\ UNCHANGED <<chat_history, db, user_query, query, composeIn, llmCalls,
                   connectMsg>>

\* get_response, second step: response = safe_query_execution(db, vars["query"]).
Execute(o) ==
    /\ pc = "execute"
    /\ dbArg' = Append(dbArg, safe_query_execution(query, o).arg)
    /\ dbOutcome' = o
    /\ response' = safe_query_execution(query, o).result
    /\ stages' = Append(stages, "exec")
    /\ pc' = "compose"
    /\ UNCHANGED <<chat_history, db, user_query, query, composeIn, llmCalls,
                   outcome, connectMsg>>

\* The inputs of the answer prompt: schema, history, query, question and
\* response.
ComposeInputs ==
    [called |-> TRUE, schema |-> get_table_info(db),
     question |-> user_query.text, chat_history |-> chat_history,
     query |-> query, response |-> response]

\* get_response, last step: the answer LLM call returns a and the caller
\* appends AIMessage(a).
ComposeOk(a) ==
    /\ pc = "compose"
    /\ composeIn' = ComposeInputs
    /\ llmCalls' = Append(llmCalls, "ok")
    /\ stages' = Append(stages, "compose")
    /\ chat_history' = Append(chat_history, AIMessage(a))
    /\ outcome' = "answered"
    /\ pc' = "awaiting"
    /\ UNCHANGED <<db, user_query, query, response, dbArg, dbOutcome, connectMsg>>

\* The answer LLM call raises: nothing catches it, the script run ends.
ComposeFail ==
    /\ pc = "compose"
    /\ composeIn' = ComposeInputs
    /\ llmCalls' = Append(llmCalls, "failed")
    /\ stages' = Append(stages, "compose")
    /\ outcome' = "raised"
    /\ pc' = "awaiting"
    /\ UNCHANGED <<chat_history, db, user_query, query, response, dbArg,
                   dbOutcome, connectMsg>>

Next ==
    \/ \E u \in Uris, ok \in BOOLEAN : Connect(u, ok)
    \/ \E uq \in UserInputs : ChatInput(uq)
    \/ \E q \in SessionQueries : GenerateOk(q)
    \/ GenerateFail
    \/ \E o \in DbOutcomes : Execute(o)
    \/ \E a \in Answers : ComposeOk(a)
    \/ ComposeFail

Spec == Init /\ [][Next]_vars

----------------------------------------------------------------------------
(* The Query Executor alone: the pipeline stands at safe_query_execution   *)
(* with an arbitrary generated text.                                       *)

InitPatch ==
    /\ chat_history = <<Greeting, HumanMessage(<<"a">>)>>
    /\ db = Handle("emp")
    /\ user_query = Some(<<"a">>)
    /\ pc = "execute"
    /\ query \in AllQueries
    /\ response = <<>>
    /\ dbArg = <<>>
    /\ dbOutcome = NoOutcome
    /\ composeIn = NoCompose
    /\ stages = <<"get_response", "gen">>
    /\ llmCalls = <<"ok">>
    /\ outcome = "running"
    /\ connectMsg = "none"

NextPatch == \E o \in DbOutcomes : Execute(o)

SpecPatch == InitPatch /\ [][NextPatch]_vars

----------------------------------------------------------------------------
(* Properties *)

FullRun == <<"get_response", "gen", "exec", "compose">>

ErrorText(o) == <<ErrPrefix>> \o o.val

NestedDateSub == <<DATE, SUB>> \o DateSubPattern

\* C1: safe_query_execution never raises; when db.run fails it returns the
\* error prefix followed by the failure's details, and when db.run succeeds
\* it returns the database's result unchanged.
C1_NeverRaises ==
    /\ outcome # "raised"
    /\ pc # "execute" =>
          /\ pc = "compose"
          /\ Len(dbArg) = 1
          /\ response = IF dbOutcome.ok THEN dbOutcome.val ELSE ErrorText(dbOutcome)
          /\ ~dbOutcome.ok => Head(response) = ErrPrefix /\ Tail(response) = dbOutcome.val

C1_Witness ==
    /\ pc = "compose"
    /\ ~dbOutcome.ok
    /\ Contains(query, JoinPattern)
    /\ response = <<ErrPrefix, "syntax error">>

\* C2: the two substitutions are idempotent: patching the text that was
\* handed to db.run (already patched once) gives the same text back.
C2_Idempotent == pc = "compose" => Patch(dbArg[1]) = dbArg[1]

C3_BlankIgnored ==
    [][ (pc = "awaiting" /\ ~Accepted(user_query')) =>
            /\ chat_history' = chat_history
            /\ pc' = "awaiting"
            /\ stages' = <<>>
            /\ llmCalls' = <<>>
            /\ dbArg' = <<>>
            /\ ~composeIn'.called ]_vars

C3_Witness ==
    /\ user_query.given
    /\ user_query.text # <<>>
    /\ ~Accepted(user_query)
    /\ db.set
    /\ Len(chat_history) > 1
    /\ outcome = "ignored"

C7_AppendOnly ==
    /\ [](chat_history[1] = Greeting)
    /\ [][IsPrefix(chat_history, chat_history')]_vars

C7_Witness ==
    /\ Len(chat_history) >= 4
    /\ connectMsg = "error"
    /\ \E i \in 1..Len(chat_history) : chat_history[i].type = "Human"
    /\ \E i \in 2..Len(chat_history) : chat_history[i].type = "AI"

\* C8: a failing LLM call is not caught: the script run ends raised with no
\* AI turn appended after the question's Human turn, and when the failing
\* call is the SQL-generation call db.run is never called in that run.
C8_ProviderErrorPropagates ==
    (llmCalls # <<>> /\ Last(llmCalls) = "failed") =>
        /\ pc = "awaiting"
        /\ outcome = "raised"
        /\ Last(chat_history) = HumanMessage(user_query.text)
        /\ Len(llmCalls) = 1 => dbArg = <<>> /\ stages = <<"get_response", "gen">>
        /\ Len(llmCalls) = 2 => Len(dbArg) = 1 /\ stages = FullRun

C8_Witness ==
    /\ llmCalls = <<"failed">>
    /\ outcome = "raised"
    /\ Len(chat_history) >= 4

\* C9 as stated: after a failed Connect no database handle is stored.
C9_UnsetAfterFailure == connectMsg = "error" => ~db.set

\* C9: a failed Connect is caught and shown and leaves the connection state
\* as it was: it stores no handle, so with none stored before a following
\* question does not run the pipeline, while a handle stored by an earlier
\* successful Connect stays and a following question runs the pipeline.
C9_UnchangedAfterFailure ==
    [][ /\ (pc = "awaiting" /\ connectMsg' = "error") =>
              /\ db' = db
              /\ pc' = "awaiting"
              /\ outcome' # "raised"
              /\ chat_history' = chat_history
        /\ (connectMsg = "error" /\ Accepted(user_query')) =>
              (pc' = "generate") = db.set ]_vars

C9_Witness ==
    /\ connectMsg = "error"
    /\ db.set
    /\ Len(chat_history) > 1

\* C10: whenever get_response is running a database handle is stored and the
\* last element of the history is the Human turn holding the question; the
\* answer prompt gets that same history; every AI turn but the greeting is
\* immediately preceded by a Human turn, the one it answers.
C10_QuestionLast ==
    /\ pc # "awaiting" =>
          /\ db.set
          /\ Accepted(user_query)
          /\ Last(chat_history) = HumanMessage(user_query.text)
    /\ composeIn.called =>
          /\ composeIn.question = user_query.text
          /\ Last(composeIn.chat_history) = HumanMessage(composeIn.question)
    /\ outcome = "answered" =>
          /\ Last(chat_history).type = "AI"
          /\ chat_history[Len(chat_history) - 1] = HumanMessage(user_query.text)
    /\ \A i \in 2..Len(chat_history) :
          chat_history[i].type = "AI" => chat_history[i - 1].type = "Human"

C10_Witness ==
    /\ pc = "awaiting"
    /\ outcome = "answered"
    /\ Len(chat_history) = 5
    /\ chat_history[2].type = "Human"
    /\ chat_history[3].type = "AI"

====
